---- MODULE Spec2Model ----
(***************************************************************************)
(* A model of generate_feed.py: the RSS feed generator of the repository.  *)
(*                                                                         *)
(* Text is a sequence of one-character strings.  The literal "**Goal:**"   *)
(* is one element of the alphabet (GOAL); it is neither whitespace, nor a  *)
(* newline, nor an uppercase letter, exactly like its first character '*'. *)
(* A git date string "YYYY-MM-DD HH:MM:SS +ZZZZ" is the tuple of its       *)
(* fixed-width fields <<Y, M, D, h, m, s, sign, oh, om>>, so that the      *)
(* lexicographic order of tuples is the order of the strings (the sign is  *)
(* its character code, '+' before '-'); None and the empty string are both *)
(* the empty tuple (the code only tests them by truth).                    *)
(***************************************************************************)
EXTENDS Integers, Sequences, FiniteSets, TLC

VARIABLES
    pc,          \* main's position
    blogsExists, \* whether the directory "blogs" exists
    tree,        \* the markdown files under blogs/, in rglob order
    gitAvail,    \* whether the git executable can be started
    now,         \* what datetime.now() returned to generate_rss_feed
    posts,       \* the collection generate_rss_feed rendered from
    rss,         \* the value generate_rss_feed returned
    feedFile,    \* the content of feed.xml
    printed,     \* the count main printed
    exc,         \* the exception that ended the run, if one did
    text,        \* input of the function under study (pure-function specifications)
    result       \* its output

vars == <<pc, blogsExists, tree, gitAvail, now, posts, rss, feedFile, printed, exc, text, result>>

None == <<>>

NL == "\n"
GOAL == "**Goal:**"

\* ---------------------------------------------------------------- text

IsSpace(c) == c \in {" ", NL}

UpperLetters ==
    {"A", "B", "C", "D", "E", "F", "G", "H", "I", "J", "K", "L", "M",
     "N", "O", "P", "Q", "R", "S", "T", "U", "V", "W", "X", "Y", "Z"}

\* [A-Z]
IsUpper(c) == c \in UpperLetters

RECURSIVE lstrip(_)
lstrip(s) == IF s # <<>> /\ IsSpace(Head(s)) THEN lstrip(Tail(s)) ELSE s

RECURSIVE rstrip(_)
rstrip(s) ==
    IF s # <<>> /\ IsSpace(s[Len(s)]) THEN rstrip(SubSeq(s, 1, Len(s) - 1)) ELSE s

\* str.strip()
strip(s) == rstrip(lstrip(s))

\* s[:n]
Truncate(s, n) == IF Len(s) > n THEN SubSeq(s, 1, n) ELSE s

Max(S) == CHOOSE x \in S : \A y \in S : y <= x
Min(S) == CHOOSE x \in S : \A y \in S : x <= y

\* '^' under re.MULTILINE
AtLineStart(doc, i) == i = 1 \/ doc[i - 1] = NL

\* The index just past the line that holds position p: where [^\n]+ or .+ stops.
LineEnd(doc, p) ==
    CHOOSE q \in p..(Len(doc) + 1) :
        /\ q = Len(doc) + 1 \/ doc[q] = NL
        /\ \A r \in p..(q - 1) : doc[r] # NL

\* The number of whitespace characters from position j on (what a greedy \s* takes).
SpaceRun(doc, j) ==
    CHOOSE k \in 0..(Len(doc) - j + 1) :
        /\ j + k > Len(doc) \/ ~IsSpace(doc[j + k])
        /\ \A r \in 0..(k - 1) : IsSpace(doc[j + r])

\* \s{kmin,} followed by a group that must start with a character other than a
\* newline: the greedy run of whitespace gives characters back until the group
\* can start.  0 when it cannot start anywhere.
CaptureStart(doc, j, kmin) ==
    LET m == SpaceRun(doc, j)
        K == {k \in kmin..m : j + k <= Len(doc) /\ doc[j + k] # NL}
    IN  IF K = {} THEN 0 ELSE j + Max(K)

\* re.search(r"^#\s+(.+)$", content, re.MULTILINE): group(1), or <<>> and found = FALSE
title_match(content) ==
    LET I == {i \in 1..Len(content) :
                 /\ AtLineStart(content, i)
                 /\ content[i] = "#"
                 /\ CaptureStart(content, i + 1, 1) # 0}
    IN  IF I = {} THEN [found |-> FALSE, group |-> <<>>]
        ELSE LET p == CaptureStart(content, Min(I) + 1, 1)
             IN  [found |-> TRUE,
                  group |-> SubSeq(content, p, LineEnd(content, p) - 1)]

\* re.search(r"\*\*Goal:\*\*\s*(.+?)(?:\n|$)", content, re.MULTILINE)
goal_match(content) ==
    LET I == {i \in 1..Len(content) :
                 /\ content[i] = GOAL
                 /\ CaptureStart(content, i + 1, 0) # 0}
    IN  IF I = {} THEN [found |-> FALSE, group |-> <<>>]
        ELSE LET p == CaptureStart(content, Min(I) + 1, 0)
             IN  [found |-> TRUE,
                  group |-> SubSeq(content, p, LineEnd(content, p) - 1)]

\* Where (?:\n[^\n]+)* stops, from the end e (exclusive) of a line.
RECURSIVE ParagraphEnd(_, _)
ParagraphEnd(doc, e) ==
    IF e <= Len(doc) /\ e + 1 <= Len(doc) /\ doc[e + 1] # NL
    THEN ParagraphEnd(doc, LineEnd(doc, e + 1))
    ELSE e

\* re.findall(r"^[A-Z][^\n]+(?:\n[^\n]+)*", content, re.MULTILINE)[0], or <<>>
first_paragraph(content) ==
    LET I == {i \in 1..Len(content) :
                 /\ AtLineStart(content, i)
                 /\ IsUpper(content[i])
                 /\ i + 1 <= Len(content)
                 /\ content[i + 1] # NL}
    IN  IF I = {} THEN [found |-> FALSE, group |-> <<>>]
        ELSE LET i == Min(I)
             IN  [found |-> TRUE,
                  group |-> SubSeq(content, i, ParagraphEnd(content, LineEnd(content, i)) - 1)]

DESC_LIMIT == 200

READ_MORE == "Read the full article: "

\* Path(file_path).stem: the name without its last suffix
stem(name) ==
    LET D == {i \in 2..Len(name) : name[i] = "."}
    IN  IF D = {} \/ Max(D) = Len(name) THEN name ELSE SubSeq(name, 1, Max(D) - 1)

\* extract_title_and_description; readable = FALSE is the open()/read() that raises
extract_title_and_description(name, readable, content) ==
    IF ~readable THEN [title |-> stem(name), description |-> <<>>]
    ELSE
    LET tm == title_match(content)
        title == IF tm.found THEN strip(tm.group) ELSE stem(name)
        gm == goal_match(content)
        pm == first_paragraph(content)
        description ==
            IF gm.found THEN strip(gm.group)
            ELSE IF pm.found THEN Truncate(strip(pm.group), DESC_LIMIT)
            ELSE <<>>
    IN  [title |-> title,
         description |-> IF description = <<>> THEN <<READ_MORE>> \o title
                         ELSE description]

\* ---------------------------------------------------------------- escape

RECURSIVE ReplaceChar(_, _, _)
\* str.replace(c, rep) for a one-character c
ReplaceChar(s, c, rep) ==
    IF s = <<>> THEN <<>>
    ELSE (IF Head(s) = c THEN rep ELSE <<Head(s)>>) \o ReplaceChar(Tail(s), c, rep)

AMP == <<"&", "a", "m", "p", ";">>
GT == <<"&", "g", "t", ";">>
LT == <<"&", "l", "t", ";">>

\* escape with the "&" replaced last: the "&" of "&gt;" and "&lt;" is escaped again
escape_amp_last(data) ==
    ReplaceChar(ReplaceChar(ReplaceChar(data, ">", GT), "<", LT), "&", AMP)

\* xml.sax.saxutils.escape(data): "&" first, then ">" and "<"
escape(data) == ReplaceChar(ReplaceChar(ReplaceChar(data, "&", AMP), ">", GT), "<", LT)

\* ---------------------------------------------------------------- dates

\* The character codes of the sign of a UTC offset.
PLUS == 43
MINUS == 45

IsLeap(y) == (y % 4 = 0 /\ y % 100 # 0) \/ y % 400 = 0

DaysInMonth(y, m) ==
    IF m = 2 THEN (IF IsLeap(y) THEN 29 ELSE 28)
    ELSE IF m \in {4, 6, 9, 11} THEN 30 ELSE 31

\* The day number of a civil date, 1970-01-01 being day 0.
DaysFromCivil(y, m, d) ==
    LET yy == IF m <= 2 THEN y - 1 ELSE y
        era == yy \div 400
        yoe == yy - era * 400
        mp == IF m > 2 THEN m - 3 ELSE m + 9
        doy == (153 * mp + 2) \div 5 + d - 1
        doe == yoe * 365 + yoe \div 4 - yoe \div 100 + doy
    IN  era * 146097 + doe - 719468

WeekdayNames == <<"Sun", "Mon", "Tue", "Wed", "Thu", "Fri", "Sat">>
MonthNames ==
    <<"Jan", "Feb", "Mar", "Apr", "May", "Jun", "Jul", "Aug", "Sep", "Oct", "Nov", "Dec">>

\* %a
Weekday(y, m, d) == WeekdayNames[((DaysFromCivil(y, m, d) + 4) % 7) + 1]

\* strptime with an optional %z: a date string without an offset parses too
strptime_ok_naive(ds) ==
    /\ Len(ds) \in {6, 9}
    /\ ds[2] \in 1..12
    /\ ds[3] >= 1 /\ ds[3] <= DaysInMonth(ds[1], ds[2])
    /\ ds[4] \in 0..23 /\ ds[5] \in 0..59 /\ ds[6] \in 0..59

\* datetime.strptime(date_str, "%Y-%m-%d %H:%M:%S %z") does not raise ValueError:
\* every directive must match, %z included, and the fields must make a date.
strptime_ok(ds) ==
    /\ Len(ds) = 9
    /\ ds[1] >= 1
    /\ ds[2] \in 1..12
    /\ ds[3] >= 1 /\ ds[3] <= DaysInMonth(ds[1], ds[2])
    /\ ds[4] \in 0..23
    /\ ds[5] \in 0..59
    /\ ds[6] \in 0..59
    /\ ds[7] \in {PLUS, MINUS}
    /\ ds[8] \in 0..23
    /\ ds[9] \in 0..59

\* dt.strftime("%a, %d %b %Y %H:%M:%S %z"); tz is what %z prints
strftime_rfc822(ds) ==
    [wd |-> Weekday(ds[1], ds[2], ds[3]), day |-> ds[3], mon |-> MonthNames[ds[2]],
     year |-> ds[1], hh |-> ds[4], mm |-> ds[5], ss |-> ds[6],
     tz |-> SubSeq(ds, 7, Len(ds))]

\* format_rfc822_date: <<the formatted date>>, or None
format_rfc822_date(date_str) ==
    IF date_str = <<>> THEN None
    ELSE IF strptime_ok(date_str) THEN <<strftime_rfc822(date_str)>>
    ELSE None

\* dt.strftime("%Y-%m-%d %H:%M:%S %z"): %z prints nothing for a naive datetime
strftime_git(dt) ==
    <<dt.year, dt.month, dt.day, dt.hour, dt.minute, dt.second>> \o dt.tzinfo

\* ---------------------------------------------------------------- the pipeline

RSS_CONFIG ==
    [title |-> <<"Nipuna Perera - Blog">>,
     link |-> <<"https://github.com/nipunap/nipunap">>,
     description |->
         <<"Senior Staff Database Reliability Engineer specializing in managing complex database environments, ensuring high availability and performance at scale.">>,
     language |-> <<"en-us">>,
     email |-> <<"nipunap@gmail.com">>,
     author |-> <<"Nipuna Perera">>]

\* get_git_date.  git is one run of "git log --format=%ai --reverse -- path": its
\* exit status and the lines of its output.  Only CalledProcessError is caught: a
\* git that cannot be started raises FileNotFoundError out of subprocess.run.
get_git_date(avail, git) ==
    IF ~avail THEN [raised |-> TRUE, value |-> None]
    ELSE IF git.rc # 0 THEN [raised |-> FALSE, value |-> None]
    ELSE IF git.stdout # <<>> /\ git.stdout[1] # <<>>
         THEN [raised |-> FALSE, value |-> git.stdout[1]]
    ELSE [raised |-> FALSE, value |-> None]

\* The order of str: a < b
RECURSIVE StrLess(_, _)
StrLess(a, b) ==
    IF b = <<>> THEN FALSE
    ELSE IF a = <<>> THEN TRUE
    ELSE IF Head(a) # Head(b) THEN Head(a) < Head(b)
    ELSE StrLess(Tail(a), Tail(b))

\* key=lambda x: x["date"] or ""
SortKey(post) == post.date

RECURSIVE InsertDesc(_, _)
InsertDesc(sorted, x) ==
    IF sorted = <<>> THEN <<x>>
    ELSE IF StrLess(SortKey(Head(sorted)), SortKey(x)) THEN <<x>> \o sorted
    ELSE <<Head(sorted)>> \o InsertDesc(Tail(sorted), x)

RECURSIVE SortFrom(_, _)
SortFrom(sorted, rest) ==
    IF rest = <<>> THEN sorted ELSE SortFrom(InsertDesc(sorted, Head(rest)), Tail(rest))

\* list.sort(key=..., reverse=True): descending and stable
sort_newest_first(list) == SortFrom(<<>>, list)

\* The record find_blog_posts builds for one file
blog_post(doc, git_date) ==
    LET td == extract_title_and_description(doc.name, doc.readable, doc.content)
    IN  [path |-> <<"blogs/">> \o doc.name,
         rel_path |-> <<"blogs/">> \o doc.name,
         title |-> td.title,
         description |-> td.description,
         date |-> git_date]

\* find_blog_posts: the sorted collection, or the exception of a get_git_date
find_blog_posts(exists, tr, avail) ==
    IF ~exists THEN [raised |-> FALSE, value |-> <<>>]
    ELSE IF \E i \in 1..Len(tr) : get_git_date(avail, tr[i].git).raised
         THEN [raised |-> TRUE, value |-> <<>>]
    ELSE [raised |-> FALSE,
          value |-> sort_newest_first(
              [i \in 1..Len(tr) |-> blog_post(tr[i], get_git_date(avail, tr[i].git).value)])]

github_url(post) == RSS_CONFIG.link \o <<"/blob/main/">> \o post.rel_path

\* One <item> element; pub_date is written with str(), as last_build_date is
item_xml(post, pub_date) ==
    [title |-> escape(post.title),
     link |-> github_url(post),
     description |-> escape(post.description),
     author |-> RSS_CONFIG.email \o <<" (">> \o RSS_CONFIG.author \o <<")">>,
     pubDate |-> pub_date,
     guid |-> github_url(post)]

\* The loop without its "continue": every post gets an item
rss_items_all(blog_posts) ==
    [i \in 1..Len(blog_posts) |->
        item_xml(blog_posts[i], format_rfc822_date(blog_posts[i].date))]

\* The loop over blog_posts: a post whose date does not format is skipped
RECURSIVE rss_items(_)
rss_items(blog_posts) ==
    IF blog_posts = <<>> THEN <<>>
    ELSE LET post == Head(blog_posts)
             pub_date == IF post.date # <<>> THEN format_rfc822_date(post.date) ELSE None
         IN  (IF pub_date = None THEN <<>> ELSE <<item_xml(post, pub_date)>>)
             \o rss_items(Tail(blog_posts))

\* The latest build date: an element written into the document with str(), so
\* that None is the text "None"
last_build_date(blog_posts, dtnow) ==
    IF blog_posts # <<>> /\ blog_posts[1].date # <<>>
    THEN format_rfc822_date(blog_posts[1].date)
    ELSE format_rfc822_date(strftime_git(dtnow))

NoXml == [title |-> <<>>, link |-> <<>>, description |-> <<>>, language |-> <<>>,
          lastBuildDate |-> None, items |-> <<>>]

\* generate_rss_feed: the document, with the collection it was rendered from
generate_rss_feed(exists, tr, avail, dtnow) ==
    LET found == find_blog_posts(exists, tr, avail)
        blog_posts == found.value
    IN  IF found.raised THEN [raised |-> TRUE, posts |-> <<>>, xml |-> NoXml]
        ELSE [raised |-> FALSE,
              posts |-> blog_posts,
              xml |-> [title |-> escape(RSS_CONFIG.title),
                       link |-> RSS_CONFIG.link,
                       description |-> escape(RSS_CONFIG.description),
                       language |-> RSS_CONFIG.language,
                       lastBuildDate |-> last_build_date(blog_posts, dtnow),
                       items |-> rss_items(blog_posts)]]

\* ---------------------------------------------------------------- inputs

\* The most files under blogs/ when a run starts.
MaxDocs == 2

\* "2025-01-02 10:00:00 +0000"
DateUtc == <<2025, 1, 2, 10, 0, 0, PLUS, 0, 0>>
\* "2025-01-02 09:00:00 -0500": four hours after DateUtc, and a smaller string
DateWest == <<2025, 1, 2, 9, 0, 0, MINUS, 5, 0>>
\* "2025-13-01 10:00:00 +0000": a line of the right shape that is no date
DateBad == <<2025, 13, 1, 10, 0, 0, PLUS, 0, 0>>

\* What one run of git log can give: an error status (not a repository, a bad
\* path), no commit (an untracked file), one commit, two commits oldest first.
GitOutcomes ==
    {[rc |-> 128, stdout |-> <<>>],
     [rc |-> 0, stdout |-> <<>>],
     [rc |-> 0, stdout |-> <<DateUtc>>],
     [rc |-> 0, stdout |-> <<DateWest>>],
     [rc |-> 0, stdout |-> <<DateBad>>],
     [rc |-> 0, stdout |-> <<DateUtc, DateWest>>]}

\* "# Hello World\n\n**Goal:** Learn things.\n"
HelloDoc ==
    <<"#", " ", "H", "e", "l", "l", "o", " ", "W", "o", "r", "l", "d", NL, NL,
      GOAL, " ", "L", "e", "a", "r", "n", " ", "t", "h", "i", "n", "g", "s", ".", NL>>

\* "A<&>b\n#  ": markup characters in the first paragraph, a heading of spaces
OddDoc == <<"A", "<", "&", ">", "b", NL, "#", " ", " ">>

\* A file as the run sees it: whether it can be read and decoded, its text, its history.
FileStates ==
    {[readable |-> TRUE, content |-> c, git |-> g] : c \in {HelloDoc, OddDoc}, g \in GitOutcomes}
    \cup {[readable |-> FALSE, content |-> <<>>, git |-> g] : g \in GitOutcomes}

FileLetters == <<"a", "b", "c", "d", "e">>

\* The i-th file name: "a.md", "b.md", ...
FileName(i) == <<FileLetters[i], ".", "m", "d">>

MkDoc(name, st) ==
    [name |-> name, readable |-> st.readable, content |-> st.content, git |-> st.git]

\* A file created while main runs: readable, not yet committed.
NewDoc == MkDoc(<<"n", "e", "w", ".", "m", "d">>, [readable |-> TRUE, content |-> HelloDoc,
                                                   git |-> [rc |-> 0, stdout |-> <<>>]])

\* datetime.now(): a naive datetime, whose tzinfo is None
Clock ==
    {[year |-> 2026, month |-> 11, day |-> 4, hour |-> 12, minute |-> 0, second |-> s,
      tzinfo |-> None] : s \in {0, 1}}

RemoveAt(seq, i) == SubSeq(seq, 1, i - 1) \o SubSeq(seq, i + 1, Len(seq))

\* ---------------------------------------------------------------- main

InitTree ==
    /\ blogsExists \in BOOLEAN
    /\ gitAvail \in BOOLEAN
    /\ \E n \in 0..MaxDocs : \E f \in [1..n -> FileStates] :
          tree = [i \in 1..n |-> MkDoc(FileName(i), f[i])]
    /\ (~blogsExists => tree = <<>>)

Init ==
    /\ InitTree
    /\ pc = "start"
    /\ now = <<>>
    /\ posts = <<>>
    /\ rss = NoXml
    /\ feedFile = <<>>
    /\ printed = <<>>
    /\ exc = "none"
    /\ text = <<>>
    /\ result = <<>>

\* rss_content = generate_rss_feed()
Generate ==
    /\ pc = "start"
    /\ \E dt \in Clock :
          LET r == generate_rss_feed(blogsExists, tree, gitAvail, dt)
          IN  /\ now' = <<dt>>
              /\ IF r.raised
                 THEN /\ pc' = "crashed"
                      /\ exc' = "FileNotFoundError"
                      /\ UNCHANGED <<posts, rss>>
                 ELSE /\ pc' = "generated"
                      /\ posts' = r.posts
                      /\ rss' = r.xml
                      /\ UNCHANGED exc
    /\ UNCHANGED <<blogsExists, tree, gitAvail, feedFile, printed, text, result>>

\* output_path.write_text(rss_content)
WriteFeed ==
    /\ pc = "generated"
    /\ pc' = "written"
    /\ feedFile' = <<rss>>
    /\ UNCHANGED <<blogsExists, tree, gitAvail, now, posts, rss, printed, exc, text, result>>

\* write_text raises (permissions, disk full): nothing catches it
WriteFails ==
    /\ pc = "generated"
    /\ pc' = "crashed"
    /\ exc' = "OSError"
    /\ UNCHANGED <<blogsExists, tree, gitAvail, now, posts, rss, feedFile, printed, text, result>>

\* Between the two collection passes another process creates a file under blogs/
\* (one change is modelled: the tree still has the size of the collection) ...
FileCreated ==
    /\ pc = "written"
    /\ Len(tree) = Len(posts)
    /\ blogsExists' = TRUE
    /\ tree' = Append(tree, NewDoc)
    /\ UNCHANGED <<pc, gitAvail, now, posts, rss, feedFile, printed, exc, text, result>>

\* ... or deletes one
FileDeleted ==
    /\ pc = "written"
    /\ Len(tree) = Len(posts)
    /\ \E i \in 1..Len(tree) : tree' = RemoveAt(tree, i)
    /\ UNCHANGED <<pc, blogsExists, gitAvail, now, posts, rss, feedFile, printed, exc, text, result>>

\* print(f"Found {len(find_blog_posts())} blog posts")
PrintCount ==
    /\ pc = "written"
    /\ LET r == find_blog_posts(blogsExists, tree, gitAvail)
       IN  IF r.raised
           THEN /\ pc' = "crashed"
                /\ exc' = "FileNotFoundError"
                /\ UNCHANGED printed
           ELSE /\ pc' = "done"
                /\ printed' = <<Len(r.value)>>
                /\ UNCHANGED exc
    /\ UNCHANGED <<blogsExists, tree, gitAvail, now, posts, rss, feedFile, text, result>>

Next ==
    \/ Generate
    \/ WriteFeed
    \/ WriteFails
    \/ FileCreated
    \/ FileDeleted
    \/ PrintCount

Spec == Init /\ [][Next]_vars

\* ---------------------------------------------------------------- extract_title_and_description alone

\* The longest text tried.
MaxTextLen == 4

TextAlphabet == {"#", " ", NL, "A", "a", GOAL}

\* "A" and 204 more letters: a paragraph longer than DESC_LIMIT
LongDoc == [i \in 1..(DESC_LIMIT + 5) |-> IF i = 1 THEN "A" ELSE "a"]

Texts == UNION {[1..n -> TextAlphabet] : n \in 0..MaxTextLen} \cup {LongDoc}

InitIdle ==
    /\ blogsExists = FALSE
    /\ gitAvail = TRUE
    /\ tree = <<>>
    /\ now = <<>>
    /\ posts = <<>>
    /\ rss = NoXml
    /\ feedFile = <<>>
    /\ printed = <<>>
    /\ exc = "none"
    /\ result = <<>>

InitExtract ==
    /\ InitIdle
    /\ pc = "extract"
    /\ text \in Texts

\* extract_title_and_description("a.md") on a file that holds text
ExtractReadable ==
    /\ pc = "extract"
    /\ pc' = "extracted"
    /\ result' = <<extract_title_and_description(FileName(1), TRUE, text)>>
    /\ UNCHANGED <<blogsExists, tree, gitAvail, now, posts, rss, feedFile, printed, exc, text>>

\* ... and on a file whose read raises
ExtractUnreadable ==
    /\ pc = "extract"
    /\ pc' = "read failed"
    /\ result' = <<extract_title_and_description(FileName(1), FALSE, text)>>
    /\ UNCHANGED <<blogsExists, tree, gitAvail, now, posts, rss, feedFile, printed, exc, text>>

NextExtract ==
    \/ ExtractReadable
    \/ ExtractUnreadable

SpecExtract == InitExtract /\ [][NextExtract]_vars

\* ---------------------------------------------------------------- one <item> alone

\* The longest title or description tried.
MaxEscLen == 4

EscAlphabet == {"&", "<", ">", ";", "a", "m", "p", "l", "t"}

EscTexts == UNION {[1..n -> EscAlphabet] : n \in 0..MaxEscLen}

InitItem ==
    /\ InitIdle
    /\ pc = "render"
    /\ text \in EscTexts

PostOf(title, description) ==
    [path |-> <<"blogs/">> \o FileName(1), rel_path |-> <<"blogs/">> \o FileName(1),
     title |-> title, description |-> description, date |-> DateUtc]

\* The item of a post whose title is text
RenderTitle ==
    /\ pc = "render"
    /\ pc' = "title rendered"
    /\ result' = <<item_xml(PostOf(text, <<"d">>), format_rfc822_date(DateUtc))>>
    /\ UNCHANGED <<blogsExists, tree, gitAvail, now, posts, rss, feedFile, printed, exc, text>>

\* The item of a post whose description is text
RenderDescription ==
    /\ pc = "render"
    /\ pc' = "description rendered"
    /\ result' = <<item_xml(PostOf(<<"t">>, text), format_rfc822_date(DateUtc))>>
    /\ UNCHANGED <<blogsExists, tree, gitAvail, now, posts, rss, feedFile, printed, exc, text>>

NextItem ==
    \/ RenderTitle
    \/ RenderDescription

SpecItem == InitItem /\ [][NextItem]_vars

\* ---------------------------------------------------------------- two runs of generate_rss_feed

InitTwoRuns ==
    /\ InitTree
    /\ pc = "first"
    /\ now = <<>>
    /\ posts = <<>>
    /\ rss = NoXml
    /\ feedFile = <<>>
    /\ printed = <<>>
    /\ exc = "none"
    /\ text = <<>>
    /\ result = <<>>

\* The first run; its outcome is kept in text ...
FirstRun ==
    /\ pc = "first"
    /\ pc' = "second"
    /\ \E dt \in Clock :
          /\ now' = <<dt>>
          /\ text' = <<generate_rss_feed(blogsExists, tree, gitAvail, dt)>>
    /\ UNCHANGED <<blogsExists, tree, gitAvail, posts, rss, feedFile, printed, exc, result>>

\* ... and the second, at any later time, over the same tree and history
SecondRun ==
    /\ pc = "second"
    /\ pc' = "both"
    /\ \E dt \in Clock :
          /\ now' = now \o <<dt>>
          /\ result' = <<generate_rss_feed(blogsExists, tree, gitAvail, dt)>>
    /\ UNCHANGED <<blogsExists, tree, gitAvail, posts, rss, feedFile, printed, exc, text>>

NextTwoRuns ==
    \/ FirstRun
    \/ SecondRun

SpecTwoRuns == InitTwoRuns /\ [][NextTwoRuns]_vars

\* ================================================================ claims

\* generate_rss_feed has returned to main.
Rendered == pc \in {"generated", "written", "done"}

\* "YYYY-MM-DD HH:MM:SS +ZZZZ" that names a moment: a date of the calendar, a time
\* of the day, an offset of less than a day.
IsGitDate(ds) ==
    /\ Len(ds) = 9
    /\ ds[2] >= 1 /\ ds[2] <= 12
    /\ ds[3] >= 1 /\ ds[3] <= DaysInMonth(ds[1], ds[2])
    /\ ds[4] < 24 /\ ds[5] < 60 /\ ds[6] < 60
    /\ ds[8] < 24 /\ ds[9] < 60

HasItem(post) == \E k \in 1..Len(rss.items) : rss.items[k].link = github_url(post)

\* C1: a record of the collection has an <item> in the feed if and only if its
\* date is present and parses as a git date; every file has its record in the
\* collection, dated or not, and is counted in its size.
C1_ItemIffDateFormats ==
    /\ Rendered =>
          \A i \in 1..Len(posts) :
              HasItem(posts[i]) <=> (posts[i].date # None /\ IsGitDate(posts[i].date))
    /\ pc = "generated" =>
          /\ Len(posts) = Len(tree)
          /\ \A d \in 1..Len(tree) :
                \E i \in 1..Len(posts) : posts[i].path = <<"blogs/">> \o tree[d].name

\* A dated record has its item, the dateless record beside it has none.
C1_Witness ==
    /\ Rendered
    /\ Len(posts) = 2
    /\ Len(rss.items) = 1
    /\ \E i \in 1..2 : posts[i].date = None

MonthIndex(name) == CHOOSE m \in 1..12 : MonthNames[m] = name

\* The moment a formatted date denotes, in seconds since 1970-01-01 00:00:00 UTC.
Instant(d) ==
    LET offset == (IF d.tz[1] = MINUS THEN -1 ELSE 1) * (d.tz[2] * 3600 + d.tz[3] * 60)
    IN  DaysFromCivil(d.year, MonthIndex(d.mon), d.day) * 86400
        + d.hh * 3600 + d.mm * 60 + d.ss - offset

\* C2: of two items of the feed, the one that comes first is not older than the
\* other, as moments in time, whatever the offsets of their dates.
C2_NewestFirst ==
    Rendered =>
        \A i, j \in 1..Len(rss.items) :
            i < j => Instant(rss.items[i].pubDate[1]) >= Instant(rss.items[j].pubDate[1])

FirstDated == posts # <<>> /\ posts[1].date # None

\* The wall-clock time dt, formatted.
IsWireOf(d, dt) ==
    /\ d.year = dt.year /\ d.mon = MonthNames[dt.month] /\ d.day = dt.day
    /\ d.hh = dt.hour /\ d.mm = dt.minute /\ d.ss = dt.second
    /\ d.wd = Weekday(dt.year, dt.month, dt.day)

\* C3: lastBuildDate is always a formatted date: that of the first record of the
\* collection when it has a date, the current time otherwise; an empty collection
\* gives no item.
C3_LastBuildDate ==
    Rendered =>
        /\ rss.lastBuildDate # None
        /\ FirstDated => rss.lastBuildDate = <<strftime_rfc822(posts[1].date)>>
        /\ ~FirstDated => IsWireOf(rss.lastBuildDate[1], now[1])
        /\ posts = <<>> => rss.items = <<>>

\* C4: every record of the collection has a title and a description that are not empty.
C4_Populated ==
    Rendered =>
        \A i \in 1..Len(posts) : posts[i].title # <<>> /\ posts[i].description # <<>>

\* C5: no failure of a history lookup or of a read ends the run: the only
\* exception that ends it is that of the write of feed.xml.
C5_OnlyWriteAborts == pc = "crashed" => exc = "OSError"

\* C10: the count main prints is the size of the collection the written feed was
\* rendered from.
C10_CountMatchesFeed == pc = "done" => printed = <<Len(posts)>>

\* The line that starts at position i.
LineAt(doc, i) == SubSeq(doc, i, LineEnd(doc, i) - 1)

LineStarts(doc) == {i \in 1..Len(doc) : AtLineStart(doc, i)}

RECURSIVE LeadingSpaces(_)
LeadingSpaces(s) == IF s # <<>> /\ Head(s) = " " THEN 1 + LeadingSpaces(Tail(s)) ELSE 0

\* A line of the form: one '#', one or more spaces, then text.  Whether text may be
\* all spaces is left open by the words: blankText decides it.
IsHeading(line, blankText) ==
    /\ Len(line) >= 3
    /\ line[1] = "#"
    /\ line[2] = " "
    /\ IF blankText THEN TRUE ELSE LeadingSpaces(Tail(line)) < Len(line) - 1

\* The title as stated: the trimmed text of the first heading line, else the stem.
ClaimedTitle(doc, name, blankText) ==
    LET H == {i \in LineStarts(doc) : IsHeading(LineAt(doc, i), blankText)}
    IN  IF H = {} THEN stem(name) ELSE strip(Tail(LineAt(doc, Min(H))))

\* C9: the title of a readable document is the trimmed text of its first line of
\* the form '#', spaces, text on that same line; the stem of the file name when it
\* has no such line.
C9_TitleIsFirstHeading ==
    pc = "extracted" =>
        \E blankText \in BOOLEAN : result[1].title = ClaimedTitle(text, FileName(1), blankText)

\* The text that follows the "**Goal:**" at position i on its line, trimmed.
GoalText(doc, i) == strip(SubSeq(doc, i + 1, LineEnd(doc, i + 1) - 1))

\* The words leave open what a "**Goal:**" with nothing after it on its line does
\* (it gives the empty description, "empty"; it is no Goal line at all and the
\* paragraph rule applies, "skip"; a later Goal line is looked for, "next"), whether
\* a paragraph can only start after a blank line ("para") or at any line ("line"),
\* and whether a line of spaces is blank.
Readings ==
    [goal : {"empty", "skip", "next"}, start : {"para", "line"}, spaces : BOOLEAN]

IsBlank(line, r) == IF r.spaces THEN strip(line) = <<>> ELSE line = <<>>

\* The end (exclusive) of the run of lines that are not blank, from the end e of one.
RECURSIVE RunEnd(_, _, _)
RunEnd(doc, e, r) ==
    IF e <= Len(doc) /\ ~IsBlank(LineAt(doc, e + 1), r)
    THEN RunEnd(doc, LineEnd(doc, e + 1), r)
    ELSE e

\* Whether the line before the one that starts at i is blank (or there is none).
AfterBlank(doc, i, r) ==
    \/ i = 1
    \/ \E j \in LineStarts(doc) \cup {i - 1} :
          /\ LineEnd(doc, j) = i - 1
          /\ (j = i - 1 => doc[j] = NL)
          /\ IsBlank(LineAt(doc, j), r)

ClaimedGoal(doc, r) ==
    LET occ == {i \in 1..Len(doc) : doc[i] = GOAL}
        full == {i \in occ : GoalText(doc, i) # <<>>}
    IN  IF r.goal = "next"
        THEN (IF full = {} THEN [found |-> FALSE, value |-> <<>>]
              ELSE [found |-> TRUE, value |-> GoalText(doc, Min(full))])
        ELSE IF occ = {} \/ (r.goal = "skip" /\ GoalText(doc, Min(occ)) = <<>>)
        THEN [found |-> FALSE, value |-> <<>>]
        ELSE [found |-> TRUE, value |-> GoalText(doc, Min(occ))]

ClaimedParagraph(doc, r) ==
    LET P == {i \in LineStarts(doc) :
                 /\ IsUpper(doc[i])
                 /\ r.start = "para" => AfterBlank(doc, i, r)}
    IN  IF P = {} THEN [found |-> FALSE, value |-> <<>>]
        ELSE [found |-> TRUE,
              value |-> Truncate(strip(SubSeq(doc, Min(P),
                                              RunEnd(doc, LineEnd(doc, Min(P)), r) - 1)),
                                 DESC_LIMIT)]

\* The description as stated, under reading r.
ClaimedDescription(doc, title, r) ==
    LET g == ClaimedGoal(doc, r)
        p == ClaimedParagraph(doc, r)
    IN  IF g.found THEN g.value
        ELSE IF p.found THEN p.value
        ELSE <<READ_MORE>> \o title

\* C6: the description is the text after "**Goal:**" on its line, trimmed, when the
\* document has one; otherwise its first paragraph whose first line starts with an
\* uppercase letter, trimmed and cut to 200 characters; otherwise
\* "Read the full article: {title}".
C6_DescriptionPriority ==
    pc = "extracted" =>
        \E r \in Readings :
            result[1].description = ClaimedDescription(text, result[1].title, r)

RECURSIVE ReplaceSub(_, _, _)
\* str.replace(pat, rep)
ReplaceSub(s, pat, rep) ==
    IF Len(s) < Len(pat) THEN s
    ELSE IF SubSeq(s, 1, Len(pat)) = pat
         THEN rep \o ReplaceSub(SubSeq(s, Len(pat) + 1, Len(s)), pat, rep)
    ELSE <<Head(s)>> \o ReplaceSub(Tail(s), pat, rep)

\* xml.sax.saxutils.unescape: "&lt;" and "&gt;" first, "&amp;" last
unescape(data) ==
    ReplaceSub(ReplaceSub(ReplaceSub(data, LT, <<"<">>), GT, <<">">>), AMP, <<"&">>)

\* No '<' at all, and no '&' but the one that starts "&amp;", "&lt;" or "&gt;".
NoRawMarkup(s) ==
    \A i \in 1..Len(s) :
        /\ s[i] # "<"
        /\ s[i] = "&" =>
              \E e \in {AMP, LT, GT} :
                  i + Len(e) - 1 <= Len(s) /\ SubSeq(s, i, i + Len(e) - 1) = e

Chars(s) == {s[i] : i \in 1..Len(s)}

\* C8: the title and the description of an item hold no raw '<' or '&', and
\* unescaping them gives back the title and the description of the record.
C8_EscapedRoundTrip ==
    /\ pc = "title rendered" =>
          NoRawMarkup(result[1].title) /\ unescape(result[1].title) = text
    /\ pc = "description rendered" =>
          NoRawMarkup(result[1].description) /\ unescape(result[1].description) = text

\* An item was rendered from a text that holds all three markup characters.
C8_Witness ==
    /\ pc \in {"title rendered", "description rendered"}
    /\ {"<", ">", "&"} \subseteq Chars(text)

WithoutBuildDate(run) == [run EXCEPT !.xml.lastBuildDate = None]

====
